---- MODULE Spec2Model ----
(***************************************************************************)
(* Project X-Ray scanner (xray_scanner.py, class CodeDependencyScanner).   *)
(* Strings are sequences of one-character strings, so that split, join,    *)
(* suffix stripping and concatenation are computed as the code computes    *)
(* them.  A scan is the state machine of scan_directory: root validation,  *)
(* the os.walk loop of _walk_files, the per-file extraction loop, graph    *)
(* building and the return.                                                *)
(***************************************************************************)
EXTENDS Naturals, Integers, Sequences, FiniteSets, TLC

VARIABLES
    rootKind,           \* what root_path names: "missing", "file" or "dir"
    tree,               \* the files below root_path (when it is a directory)
    pc,                 \* position in scan_directory
    stack,              \* os.walk: directories still to visit (top first)
    supported_files,    \* _walk_files: the list being built / iterated
    idx,                \* scan_directory: position of the for loop (line 78)
    file_dependencies,  \* ordered dict relative_path -> set of names
    file_info,          \* ordered dict relative_path -> file metadata
    result,             \* the result dictionary of scan_directory
    raised,             \* the exception scan_directory raised, or NoValue
    returned,           \* <<document>> once scan_directory returned, else <<>>
    raw, once, twice,   \* normalizer harness: input, one and two applications
    self,               \* the attributes of the scanner object
    written,            \* the files written below content/xray
    phase,              \* which scan of the instance runs: "first", "other", "again"
    first,              \* <<document>> the first scan of the root returned
    away,               \* <<root>> scanned first, while another root is scanned
    stdout_errors,      \* sys.stdout.errors: "strict" or "surrogateescape"
    call,               \* Nexus tools: the operation called and its arguments
    response,           \* Nexus tools: <<body>> the server answered with
    exc,                \* Nexus tools: the exception raised inside the try block
    data,               \* Nexus tools: <<value>> json.loads returned
    trails,             \* Nexus tools: the content of each trail, by slug
    listing,            \* the orders in which the file system listed directories
    iteration           \* the orders in which Python iterated dependency sets

\* what no step of scan_directory changes
nexusVars == <<call, response, exc, data, trails>>

callVars == <<self, written, phase, first, away, stdout_errors, nexusVars>>

vars == <<rootKind, tree, pc, stack, supported_files, idx, file_dependencies,
          file_info, result, raised, returned, raw, once, twice, callVars,
          listing, iteration>>

scanVars == <<rootKind, tree, pc, stack, supported_files, idx,
              file_dependencies, file_info, result, raised, returned,
              callVars, listing, iteration>>

normVars == <<raw, once, twice>>

NoValue == "None"

Range(s) == {s[i] : i \in DOMAIN s}

-----------------------------------------------------------------------------
(* Bounds of the model.                                                    *)

MaxFiles == 3       \* files in the scanned tree
MaxTokens == 3      \* tokens a raw module string is assembled from

-----------------------------------------------------------------------------
(* Character strings.                                                      *)

SLASH == "/"
DOT == "."

RECURSIVE Flatten(_)
Flatten(ss) == IF ss = <<>> THEN <<>> ELSE Head(ss) \o Flatten(Tail(ss))

StartsWith(s, p) == Len(p) <= Len(s) /\ SubSeq(s, 1, Len(p)) = p

EndsWith(s, p) == Len(p) <= Len(s) /\ SubSeq(s, Len(s) - Len(p) + 1, Len(s)) = p

\* positions of character c in s
Positions(s, c) == {i \in 1..Len(s) : s[i] = c}

Max(S) == CHOOSE m \in S : \A n \in S : n <= m
Min(S) == CHOOSE m \in S : \A n \in S : m <= n

\* str.split('/')[0]
FirstSegment(s) ==
    IF Positions(s, SLASH) = {} THEN s
    ELSE SubSeq(s, 1, Min(Positions(s, SLASH)) - 1)

\* str.split('/')[-1]
LastSegment(s) ==
    IF Positions(s, SLASH) = {} THEN s
    ELSE SubSeq(s, Max(Positions(s, SLASH)) + 1, Len(s))

\* str.split('.')[0]
FirstDotted(s) ==
    IF Positions(s, DOT) = {} THEN s
    ELSE SubSeq(s, 1, Min(Positions(s, DOT)) - 1)

\* os.path.join(a, b) on POSIX
PathJoin(a, b) ==
    IF StartsWith(b, <<SLASH>>) THEN b
    ELSE IF a = <<>> \/ EndsWith(a, <<SLASH>>) THEN a \o b
    ELSE a \o <<SLASH>> \o b

\* os.path.splitext(p)[1]: the suffix from the last dot of the last path
\* segment, unless that dot is one of the segment's leading dots
SplitExt(p) ==
    LET name == LastSegment(p)
        dots == Positions(name, DOT)
    IN  IF dots = {} THEN <<>>
        ELSE LET d == Max(dots)
             IN  IF \A i \in 1..d : name[i] = DOT THEN <<>>
                 ELSE SubSeq(name, d, Len(name))

\* os.path.basename(p)
BaseName(p) == LastSegment(p)

-----------------------------------------------------------------------------
(* Names used by the program.                                              *)

EXT_PY == <<".", "p", "y">>
EXT_JS == <<".", "j", "s">>
EXT_TS == <<".", "t", "s">>
EXT_TSX == <<".", "t", "s", "x">>
EXT_JSX == <<".", "j", "s", "x">>
EXT_JSON == <<".", "j", "s", "o", "n">>
EXT_MD == <<".", "m", "d">>

\* self.supported_extensions
supported_extensions ==
    [e \in {EXT_PY, EXT_JS, EXT_TS, EXT_TSX, EXT_JSX} |->
        IF e = EXT_PY THEN "python"
        ELSE IF e \in {EXT_JS, EXT_JSX} THEN "javascript"
        ELSE "typescript"]

\* skip_dirs of _walk_files
skip_dirs ==
    { <<".", "g", "i", "t">>,
      <<"n", "o", "d", "e", "_", "m", "o", "d", "u", "l", "e", "s">>,
      <<"_", "_", "p", "y", "c", "a", "c", "h", "e", "_", "_">>,
      <<".", "v", "e", "n", "v">>,
      <<"v", "e", "n", "v">>,
      <<"b", "u", "i", "l", "d">>,
      <<"d", "i", "s", "t">>,
      <<".", "n", "e", "x", "t">>,
      <<".", "n", "u", "x", "t">>,
      <<"c", "o", "v", "e", "r", "a", "g", "e">>,
      <<".", "t", "e", "r", "r", "a", "f", "o", "r", "m">>,
      <<"t", "a", "r", "g", "e", "t">> }

-----------------------------------------------------------------------------
(* The scanned tree.  A file is [dirs, name, text]: the directories from   *)
(* the root down to it, its name, and its text: readable (open and read    *)
(* succeed), the number of characters and of newlines read, the import     *)
(* statements it holds, the number of its bytes that are no valid UTF-8    *)
(* and, for Python source, what ast.parse does with it: "ok", or the name  *)
(* of the exception it raises.                                             *)

root_path == <<"/", "p">>

D_SRC == <<"s", "r", "c">>
D_LIB == <<"l", "i", "b">>
D_NODE_MODULES == <<"n", "o", "d", "e", "_", "m", "o", "d", "u", "l", "e", "s">>
D_DIST == <<"d", "i", "s", "t">>

N_A == <<"a">>
N_B == <<"b">>

\* the lone surrogate by which Python names a byte of a file name that is no
\* valid UTF-8 (os.fsdecode, error handler surrogateescape), and the file
\* name made of one such byte
SURROGATE == "?"
N_RAW == <<SURROGATE>>

RECURSIVE JoinAll(_, _)
JoinAll(base, parts) ==
    IF parts = <<>> THEN base ELSE JoinAll(PathJoin(base, Head(parts)), Tail(parts))

\* the directory a file lies in and the file's path, as os.walk names them
DirPath(f) == JoinAll(root_path, f.dirs)
FilePath(f) == PathJoin(DirPath(f), f.name)

\* the file's name in place of its path relative to the root
RelPathBaseName(file_path, start) == LastSegment(file_path)

\* os.path.relpath(file_path, root_path) for a path below root_path
RelPath(file_path, start) ==
    IF StartsWith(file_path, start \o <<SLASH>>)
    THEN SubSeq(file_path, Len(start) + 2, Len(file_path))
    ELSE file_path

\* import statements of the model's files
\* (Python: level is the number of leading dots of a relative import)
IMPORT_B == [form |-> "import", module |-> N_B, level |-> 0]
IMPORT_A_B == [form |-> "import", module |-> N_A \o <<DOT>> \o N_B, level |-> 0]
FROM_B_A == [form |-> "from", module |-> N_B \o <<DOT>> \o N_A, level |-> 0]
FROM_DOT == [form |-> "from", module |-> <<>>, level |-> 1]
FROM_DOT_B == [form |-> "from", module |-> N_B, level |-> 1]

BRACES_B == [form |-> "destructured", module |-> <<DOT, SLASH>> \o N_B]
DEFAULT_SRC_B_TS ==
    [form |-> "default",
     module |-> <<DOT, DOT, SLASH>> \o D_SRC \o <<SLASH>> \o N_B \o EXT_TS]
REQUIRE_A_JS == [form |-> "require", module |-> <<DOT, SLASH>> \o N_A \o EXT_JS]
REQUIRE_B_PY == [form |-> "require", module |-> N_B \o EXT_PY]

\* a text of one line of 9 characters per import statement, all of its bytes
\* valid UTF-8, which the Python parser accepts
Text(readable, imports) ==
    [readable |-> readable,
     chars |-> 9 * Cardinality(imports),
     newlines |-> Cardinality(imports),
     imports |-> imports,
     invalid |-> 0,
     parse |-> "ok"]

\* the text with n more bytes that are no valid UTF-8
Undecodable(text, n) == [text EXCEPT !.invalid = n]

\* the size of the file on disk in bytes: the characters of the model's
\* texts are ASCII, one byte each, and the invalid bytes come on top
ByteSize(text) == text.chars + text.invalid

\* the text as Python source on which ast.parse raises the exception named
Unparsable(text, exception) == [text EXCEPT !.parse = exception]

File(dirs, name, text) == [dirs |-> dirs, name |-> name, text |-> text]

\* the files the model's trees are made of: source files named a with import
\* statements, files named b without, in the root, in src, in src/lib and
\* in directories of the skip list; b.md has an unsupported extension; one
\* Python file has a name that is no valid UTF-8
SourceFiles ==
    {File(<<>>, N_A \o EXT_PY, t) :
        t \in {Text(TRUE, {IMPORT_B}), Text(TRUE, {FROM_DOT, FROM_B_A}),
               Text(TRUE, {IMPORT_B, IMPORT_A_B}), Text(FALSE, {}),
               Unparsable(Text(TRUE, {FROM_DOT_B, IMPORT_A_B}), "SyntaxError"),
               Unparsable(Text(TRUE, {IMPORT_B}), "RecursionError"),
               Undecodable(Text(TRUE, {IMPORT_B}), 2)}}
    \cup
    {File(<<>>, N_A \o EXT_TS, t) :
        t \in {Text(TRUE, {BRACES_B}), Text(TRUE, {DEFAULT_SRC_B_TS, REQUIRE_A_JS}),
               Text(TRUE, {REQUIRE_B_PY})}}
    \cup
    {File(<<D_SRC>>, N_A \o EXT_TS, t) :
        t \in {Text(TRUE, {BRACES_B}), Text(TRUE, {DEFAULT_SRC_B_TS, REQUIRE_A_JS})}}
    \cup
    {File(<<>>, N_RAW \o EXT_PY, t) : t \in {Text(TRUE, {IMPORT_B}), Text(FALSE, {})}}

TargetFiles ==
    {File(<<>>, N_B \o EXT_PY, Text(r, {})) : r \in BOOLEAN}
    \cup
    {File(<<>>, N_B \o e, Text(TRUE, {})) : e \in {EXT_JS, EXT_TS, EXT_TSX}}
    \cup
    {File(<<D_SRC>>, N_B \o e, Text(TRUE, {})) : e \in {EXT_PY, EXT_TS}}
    \cup
    {File(<<D_SRC, D_LIB>>, N_B \o EXT_PY, Text(TRUE, {}))}

OtherFiles ==
    { File(<<D_SRC, D_DIST>>, N_B \o EXT_PY, Text(TRUE, {})),
      File(<<D_NODE_MODULES, D_LIB>>, N_B \o EXT_TS, Text(TRUE, {})),
      File(<<>>, N_B \o EXT_MD, Text(TRUE, {})) }

AllFiles == SourceFiles \cup TargetFiles \cup OtherFiles

\* the trees of at most n files, one file per path
RECURSIVE TreesUpTo(_)
TreesUpTo(n) ==
    IF n = 0 THEN {{}}
    ELSE LET smaller == TreesUpTo(n - 1)
         IN  smaller \cup
               {t \cup {f} : t \in smaller,
                             f \in AllFiles}

PathsOf(t) == {FilePath(f) : f \in t}

Trees == {t \in TreesUpTo(MaxFiles) : Cardinality(PathsOf(t)) = Cardinality(t)}

-----------------------------------------------------------------------------
(* Import Normalizer and Language Extractors.                              *)

\* the alternatives of the regular expression of _clean_js_import
CleanSuffixes == {EXT_JS, EXT_JSX, EXT_TS, EXT_TSX, EXT_JSON}

\* StripSuffix with the dot of the pattern left unescaped, '.(js|...)$': any
\* character followed by one of the alternatives is removed
StripSuffixAnyChar(base) ==
    LET alts == {Tail(e) : e \in CleanSuffixes}
    IN  IF \E a \in alts : EndsWith(base, a) /\ Len(base) > Len(a)
        THEN LET a == CHOOSE x \in alts : EndsWith(base, x) /\ Len(base) > Len(x)
             IN  SubSeq(base, 1, Len(base) - Len(a) - 1)
        ELSE base

\* re.sub(r'\.(js|jsx|ts|tsx|json)$', '', base): the pattern is anchored at
\* the end, so at most one alternative matches and it is removed once
StripSuffix(base) ==
    IF \E e \in CleanSuffixes : EndsWith(base, e)
    THEN LET e == CHOOSE x \in CleanSuffixes : EndsWith(base, x)
         IN  SubSeq(base, 1, Len(base) - Len(e))
    ELSE base

\* the extension removed from the whole module string, directories kept
CleanKeepsPath(module) == StripSuffix(module)

\* _clean_js_import(module)
_clean_js_import(module) == StripSuffix(LastSegment(module))

\* _parse_js_imports(content).  The content of a JavaScript/TypeScript file
\* is the set of its import statements [form, module], form being
\* "default" (import X from "m"), "destructured" (import { f } from "m")
\* or "require" (require("m")).  The first pattern matches both import
\* forms, the second the require calls, the third the destructured form.
_parse_js_imports(content) ==
    LET es6_imports == {st.module : st \in {t \in content : t.form \in {"default", "destructured"}}}
        require_imports == {st.module : st \in {t \in content : t.form = "require"}}
        react_imports == {st.module : st \in {t \in content : t.form = "destructured"}}
    IN  {_clean_js_import(m) : m \in es6_imports}
          \cup {_clean_js_import(m) : m \in require_imports}
          \cup {_clean_js_import(m) : m \in react_imports}

\* \w of the regular expressions, on the characters of the model's names
IsWordChar(c) == c \notin {DOT, SLASH, " ", "\"", "'", "{", "}", "(", ")"}

\* the longest prefix of s made of word characters
WordPrefix(s) ==
    LET stops == {i \in 1..Len(s) : ~IsWordChar(s[i])}
    IN  IF stops = {} THEN s ELSE SubSeq(s, 1, Min(stops) - 1)

\* what follows the keyword on the line of a Python import statement:
\* the dots of a relative import, then the module name
AfterKeyword(st) == [i \in 1..st.level |-> DOT] \o st.module

\* lines 173-174, the fallback for a SyntaxError:
\* re.findall(r'^\s*(?:import|from)\s+(\w+)', content, re.MULTILINE)
FallbackImports(imports) ==
    {WordPrefix(AfterKeyword(st)) : st \in {t \in imports : WordPrefix(AfterKeyword(t)) # <<>>}}

\* the walk over the syntax tree collecting the whole dotted names
TreeImportsDotted(imports) ==
    {st.module : st \in {t \in imports : t.form = "import"}}
      \cup {st.module : st \in {t \in imports : t.form = "from" /\ t.module # <<>>}}

\* lines 161-169: the walk over the syntax tree.  The content of a Python
\* file is the set of its import statements [form, module, level]: form
\* "import" (import X) or "from" (from X import ..., with the empty module
\* for "from . import ...", which the test "if node.module" rejects).
TreeImports(imports) ==
    {FirstDotted(st.module) : st \in {t \in imports : t.form = "import"}}
      \cup {FirstDotted(st.module) :
              st \in {t \in imports : t.form = "from" /\ t.module # <<>>}}

\* _parse_python_imports(content) raises what ast.parse raises, unless it is
\* a SyntaxError
_parse_python_imports_raises(content) == content.parse \notin {"ok", "SyntaxError"}

\* _parse_python_imports(content) when it returns
_parse_python_imports(content) ==
    IF content.parse = "SyntaxError" THEN FallbackImports(content.imports)
    ELSE TreeImports(content.imports)

\* the read with strict decoding: a byte that is no valid UTF-8 raises
ReadRaisesStrict(text) == ~text.readable \/ text.invalid > 0

\* line 135-136: open(file_path, 'r', encoding='utf-8', errors='ignore') and
\* read raise when the file cannot be opened or read; bytes that are no
\* valid UTF-8 are dropped
ReadRaises(text) == ~text.readable

\* _parse_file(file_path) raises
_parse_file_raises(file_path, text) ==
    \/ ReadRaises(text)
    \/ SplitExt(file_path) = EXT_PY /\ _parse_python_imports_raises(text)

\* _parse_file(file_path) when it returns: <<dependencies, metadata>>
_parse_file(file_path, text) ==
    LET ext == SplitExt(file_path)
        metadata == [language |-> self.supported_extensions[ext],
                     extension |-> ext,
                     size |-> text.chars,
                     lines |-> text.newlines + 1]
        dependencies ==
            IF ext = EXT_PY THEN _parse_python_imports(text)
            ELSE IF ext \in {EXT_JS, EXT_JSX, EXT_TS, EXT_TSX}
                 THEN _parse_js_imports(text.imports)
            ELSE {}
    IN  <<dependencies, metadata>>

-----------------------------------------------------------------------------
(* Ordered dictionaries (Python dict): sequences of [key, value].          *)

DictKeys(d) == {d[i].key : i \in DOMAIN d}

\* d[k] = v
DictPut(d, k, v) ==
    IF k \in DictKeys(d)
    THEN [i \in DOMAIN d |-> IF d[i].key = k THEN [key |-> k, value |-> v] ELSE d[i]]
    ELSE Append(d, [key |-> k, value |-> v])

\* languages[language] = languages.get(language, 0) + 1
CountLanguage(languages, language) ==
    [l \in DOMAIN languages \cup {language} |->
        IF l = language
        THEN (IF l \in DOMAIN languages THEN languages[l] ELSE 0) + 1
        ELSE languages[l]]

RECURSIVE SumValues(_)
SumValues(f) ==
    IF DOMAIN f = {} THEN 0
    ELSE LET k == CHOOSE x \in DOMAIN f : TRUE
         IN  f[k] + SumValues([x \in DOMAIN f \ {k} |-> f[x]])

\* all orderings of a finite set
RECURSIVE Orderings(_)
Orderings(S) ==
    IF S = {} THEN {<<>>}
    ELSE UNION {{<<x>> \o s : s \in Orderings(S \ {x})} : x \in S}

-----------------------------------------------------------------------------
(* Graph Builder.                                                          *)

\* the node with .tsx classified as JavaScript
NodeTsxAsJs(relative_path, info) ==
    LET extension == info.extension
        group == IF extension \in {EXT_PY} THEN 1
                 ELSE IF extension \in {EXT_TS} THEN 2
                 ELSE IF extension \in {EXT_JS, EXT_JSX, EXT_TSX} THEN 3
                 ELSE 4
        color == IF group = 1 THEN "#3b82f6"
                 ELSE IF group = 2 THEN "#0891b2"
                 ELSE IF group = 3 THEN "#eab308"
                 ELSE "#6b7280"
    IN  [id |-> relative_path,
         name |-> BaseName(relative_path),
         path |-> relative_path,
         group |-> group,
         color |-> color,
         language |-> info.language,
         extension |-> extension,
         size |-> info.size,
         lines |-> info.lines,
         url |-> <<"/", "x", "r", "a", "y", "/">> \o relative_path]

\* the node dictionary _build_nodes makes of one file_info item
Node(relative_path, info) ==
    LET extension == info.extension
        group == IF extension \in {EXT_PY} THEN 1
                 ELSE IF extension \in {EXT_TS, EXT_TSX} THEN 2
                 ELSE IF extension \in {EXT_JS, EXT_JSX} THEN 3
                 ELSE 4
        color == IF group = 1 THEN "#3b82f6"
                 ELSE IF group = 2 THEN "#0891b2"
                 ELSE IF group = 3 THEN "#eab308"
                 ELSE "#6b7280"
    IN  [id |-> relative_path,
         name |-> BaseName(relative_path),
         path |-> relative_path,
         group |-> group,
         color |-> color,
         language |-> info.language,
         extension |-> extension,
         size |-> info.size,
         lines |-> info.lines,
         url |-> <<"/", "x", "r", "a", "y", "/">> \o relative_path]

\* _build_nodes(file_info)
_build_nodes(info) == [i \in DOMAIN info |-> Node(info[i].key, info[i].value)]

\* possible_targets with every supported extension appended
possible_targets_every_extension(from_file, dep) ==
    << dep \o EXT_PY, dep \o EXT_JS, dep \o EXT_TS, dep \o EXT_TSX, dep \o EXT_JSX,
       PathJoin(FirstSegment(from_file), dep \o EXT_PY),
       PathJoin(FirstSegment(from_file), dep \o EXT_JS),
       PathJoin(FirstSegment(from_file), dep \o EXT_TS),
       PathJoin(FirstSegment(from_file), dep \o EXT_TSX),
       PathJoin(FirstSegment(from_file), dep \o EXT_JSX) >>

\* possible_targets with the directory of the source file in place of the
\* first component of its path
possible_targets_same_directory(from_file, dep) ==
    LET slashes == Positions(from_file, SLASH)
        dirname == IF slashes = {} THEN <<>>
                   ELSE SubSeq(from_file, 1, Max(slashes) - 1)
    IN  << dep \o EXT_PY,
           dep \o EXT_JS,
           dep \o EXT_TS,
           PathJoin(dirname, dep \o EXT_PY),
           PathJoin(dirname, dep \o EXT_JS),
           PathJoin(dirname, dep \o EXT_TS) >>

\* possible_targets of _build_links, in the order they are tried
possible_targets(from_file, dep) ==
    << dep \o EXT_PY,
       dep \o EXT_JS,
       dep \o EXT_TS,
       PathJoin(FirstSegment(from_file), dep \o EXT_PY),
       PathJoin(FirstSegment(from_file), dep \o EXT_JS),
       PathJoin(FirstSegment(from_file), dep \o EXT_TS) >>

\* the inner loop without its break: a link for every candidate found
LinksOfDepNoBreak(from_file, dep, all_files) ==
    LET targets == possible_targets(from_file, dep)
        found == SelectSeq(targets, LAMBDA t : t \in all_files)
    IN  [i \in DOMAIN found |-> [source |-> from_file, target |-> found[i], value |-> 1]]

\* the inner loop linking a dependency no candidate matches to its first
\* candidate
LinksOfDepUnresolved(from_file, dep, all_files) ==
    LET targets == possible_targets(from_file, dep)
        hits == {i \in DOMAIN targets : targets[i] \in all_files}
    IN  <<[source |-> from_file,
           target |-> targets[IF hits = {} THEN 1 ELSE Min(hits)],
           value |-> 1]>>

\* the inner loop weighting the link by the number of candidates found
LinksOfDepWeighted(from_file, dep, all_files) ==
    LET targets == possible_targets(from_file, dep)
        hits == {i \in DOMAIN targets : targets[i] \in all_files}
    IN  IF hits = {} THEN <<>>
        ELSE <<[source |-> from_file, target |-> targets[Min(hits)],
                value |-> Cardinality(hits)]>>

\* the inner loop passing over the source file itself
LinksOfDepNotSelf(from_file, dep, all_files) ==
    LET targets == possible_targets(from_file, dep)
        hits == {i \in DOMAIN targets : targets[i] \in all_files \ {from_file}}
    IN  IF hits = {} THEN <<>>
        ELSE <<[source |-> from_file, target |-> targets[Min(hits)], value |-> 1]>>

\* the inner loop of _build_links for one dependency: the link of the first
\* candidate found in all_files (then break), or no link
LinksOfDep(from_file, dep, all_files) ==
    LET targets == possible_targets(from_file, dep)
        hits == {i \in DOMAIN targets : targets[i] \in all_files}
    IN  IF hits = {} THEN <<>>
        ELSE <<[source |-> from_file, target |-> targets[Min(hits)], value |-> 1]>>

\* the loop over a list of raw matches instead of a set of names: a name
\* matched by two patterns is visited twice
RECURSIVE LinksOfFileTwice(_, _, _)
LinksOfFileTwice(from_file, deps, all_files) ==
    IF deps = <<>> THEN <<>>
    ELSE LinksOfDep(from_file, Head(deps), all_files)
           \o LinksOfDep(from_file, Head(deps), all_files)
           \o LinksOfFileTwice(from_file, Tail(deps), all_files)

\* the loop over one file's dependencies, visited in the order deps
RECURSIVE LinksOfFile(_, _, _)
LinksOfFile(from_file, deps, all_files) ==
    IF deps = <<>> THEN <<>>
    ELSE LinksOfDep(from_file, Head(deps), all_files)
           \o LinksOfFile(from_file, Tail(deps), all_files)

\* links resolved file by file, each against the files parsed up to it
RECURSIVE LinksFromSoFar(_, _, _, _)
LinksFromSoFar(i, deps, order, all_files) ==
    IF i > Len(deps) THEN <<>>
    ELSE LinksOfFile(deps[i].key, order[i], {deps[j].key : j \in 1..i})
           \o LinksFromSoFar(i + 1, deps, order, all_files)

\* _build_links(file_dependencies, file_info); order[i] is the order in which
\* the iteration over the i-th file's dependency set visits its elements
RECURSIVE LinksFrom(_, _, _, _)
LinksFrom(i, deps, order, all_files) ==
    IF i > Len(deps) THEN <<>>
    ELSE LinksOfFile(deps[i].key, order[i], all_files)
           \o LinksFrom(i + 1, deps, order, all_files)

\* _build_links resolving against every discovered file, parsed or not
_build_links_discovered(deps, info, order) ==
    LinksFrom(1, deps, order,
              {RelPath(supported_files[i], root_path) : i \in DOMAIN supported_files})

_build_links(deps, info, order) == LinksFrom(1, deps, order, DictKeys(deps))

\* the iteration orders Python may give the dependency sets
DepOrders(deps) ==
    LET RECURSIVE UpTo(_)
        UpTo(n) ==
            IF n = 0 THEN {<<>>}
            ELSE {Append(o, s) : o \in UpTo(n - 1), s \in Orderings(deps[n].value)}
    IN  UpTo(Len(deps))

-----------------------------------------------------------------------------
(* scan_directory.                                                         *)

\* the validation without its second test
IsDirUnchecked(kind) == TRUE

\* os.path.exists(root_path) and os.path.isdir(root_path)
PathExists(kind) == kind # "missing"
IsDir(kind) == kind = "dir"

\* the result structure of line 61
EmptyResult ==
    [root_path |-> root_path,
     nodes |-> <<>>,
     links |-> <<>>,
     metadata |-> [total_files |-> 0, languages |-> <<>>, scan_errors |-> <<>>]]

\* lines 86-88: the counts after a file was parsed
CountFile(res, language) ==
    [res EXCEPT !.metadata.total_files = @ + 1,
                !.metadata.languages = CountLanguage(@, language)]

\* RecordError counting the failed file among the analyzed ones
RecordErrorCounted(res, file_path) ==
    [res EXCEPT !.metadata.scan_errors = Append(@, [file_path |-> file_path]),
                !.metadata.total_files = @ + 1]

\* the except branch recording nothing
RecordErrorSilent(res, file_path) == res

\* lines 93-94: the except branch
RecordError(res, file_path) ==
    [res EXCEPT !.metadata.scan_errors = Append(@, [file_path |-> file_path])]

\* the walk without pruning
PruneNothing(dirnames) == dirnames

\* line 122: dirnames[:] = [d for d in dirnames if d not in skip_dirs]
Prune(dirnames) == {d \in dirnames : d \notin skip_dirs}

\* the test letting every file with an extension through
SupportedAnyExtension(filename) == SplitExt(filename) # <<>>

\* line 126: ext in self.supported_extensions
Supported(filename) == SplitExt(filename) \in DOMAIN self.supported_extensions

\* the scanner object __init__ leaves (lines 30-37)
Scanner == [supported_extensions |-> supported_extensions]

\* The file system lists the names of a directory in an order of its own,
\* and lists an unchanged directory in the same order again: the orders in
\* which it may list names (the files, or the subdirectories left after
\* pruning) of the directory dirs of the root
ListingsOf(dirs, kind, names) ==
    LET known == {r \in listing :
                    r.dirs = dirs /\ r.kind = kind /\ Range(r.order) = names}
    IN  IF away = <<>> /\ known # {} THEN {r.order : r \in known}
        ELSE Orderings(names)

\* Python iterates a set in an order of its own, and within one process a
\* set built by the same insertions in the same order again: the orders in
\* which it may iterate the dependency sets of deps
IterationsOf(deps) ==
    {o \in DepOrders(deps) :
        away = <<>> =>
            \A i \in DOMAIN deps : \A r \in iteration :
                (r.file = deps[i].key /\ Range(r.order) = deps[i].value)
                    => o[i] = r.order}

\* no Nexus tool is called
NoNexusCall ==
    /\ call = NoValue
    /\ response = <<>>
    /\ exc = NoValue
    /\ data = <<>>
    /\ trails = <<>>

\* before the first scan of the instance
FirstCall ==
    /\ NoNexusCall
    /\ self = Scanner
    /\ written = {}
    /\ phase = "first"
    /\ first = <<>>
    /\ away = <<>>
    /\ listing = {}
    /\ iteration = {}

\* the names os.walk lists for the directory dirs
FileNames(dirs) == {f.name : f \in {g \in tree : g.dirs = dirs}}
DirNames(dirs) ==
    {f.dirs[Len(dirs) + 1] :
        f \in {g \in tree : Len(g.dirs) > Len(dirs) /\ SubSeq(g.dirs, 1, Len(dirs)) = dirs}}

\* the file of the tree a path names
FileAt(file_path) == CHOOSE f \in tree : FilePath(f) = file_path

\* the error handlers of standard output the scans start with: "strict",
\* and, where the two differ, "surrogateescape" (the handler decides
\* nothing unless a name holds a lone surrogate)
StdoutErrors(files) ==
    IF \E f \in files : SURROGATE \in Range(f.name)
    THEN {"strict", "surrogateescape"}
    ELSE {"strict"}

Init ==
    /\ rootKind \in {"missing", "file", "dir"}
    /\ tree \in (IF rootKind = "dir" THEN Trees ELSE {{}})
    /\ pc = "Idle"
    /\ stack = <<>>
    /\ supported_files = <<>>
    /\ idx = 1
    /\ file_dependencies = <<>>
    /\ file_info = <<>>
    /\ result = EmptyResult
    /\ raised = NoValue
    /\ returned = <<>>
    /\ raw = <<>>
    /\ once = <<>>
    /\ twice = <<>>
    /\ FirstCall
    /\ stdout_errors \in StdoutErrors(tree)

\* lines 53-58, root_path invalid: ValueError
ValidateFail ==
    /\ pc = "Idle"
    /\ ~PathExists(rootKind) \/ ~IsDir(rootKind)
    /\ raised' = (IF ~PathExists(rootKind) THEN "ValueError: Path does not exist"
                  ELSE "ValueError: Path is not a directory")
    /\ pc' = "Failed"
    /\ UNCHANGED <<rootKind, tree, stack, supported_files, idx, file_dependencies,
                   file_info, result, returned, normVars, callVars, listing, iteration>>

\* the result structure kept from one call to the next
ValidateOkKeepsResult ==
    /\ pc = "Idle"
    /\ PathExists(rootKind) /\ IsDir(rootKind)
    /\ file_dependencies' = <<>>
    /\ file_info' = <<>>
    /\ supported_files' = <<>>
    /\ stack' = << <<>> >>
    /\ pc' = "Discovering"
    /\ UNCHANGED <<rootKind, tree, idx, raised, returned, result, normVars,
                   callVars, listing, iteration>>

\* lines 53-78, root_path valid: the result structure is initialized and
\* _walk_files starts os.walk at the root
ValidateOk ==
    /\ pc = "Idle"
    /\ PathExists(rootKind) /\ IsDir(rootKind)
    /\ result' = EmptyResult
    /\ file_dependencies' = <<>>
    /\ file_info' = <<>>
    /\ supported_files' = <<>>
    /\ stack' = << <<>> >>
    /\ pc' = "Discovering"
    /\ UNCHANGED <<rootKind, tree, idx, raised, returned, normVars, callVars, listing, iteration>>

\* lines 120-127: one iteration of the os.walk loop; the file system lists
\* the names of a directory in an order of its own
WalkDir ==
    /\ pc = "Discovering"
    /\ stack # <<>>
    /\ LET dirs == Head(stack)
           dirpath == JoinAll(root_path, dirs)
       IN  \E filenames \in ListingsOf(dirs, "files", FileNames(dirs)),
              dirnames \in ListingsOf(dirs, "dirs", Prune(DirNames(dirs))) :
             /\ supported_files' =
                  supported_files \o
                    [i \in 1..Len(SelectSeq(filenames, Supported)) |->
                        PathJoin(dirpath, SelectSeq(filenames, Supported)[i])]
             /\ stack' = [i \in 1..Len(dirnames) |-> Append(dirs, dirnames[i])]
                           \o Tail(stack)
             /\ listing' =
                  (IF away # <<>> THEN listing
                   ELSE listing \cup
                          {[dirs |-> dirs, kind |-> "files", order |-> filenames],
                           [dirs |-> dirs, kind |-> "dirs", order |-> dirnames]})
    /\ UNCHANGED <<rootKind, tree, pc, idx, file_dependencies, file_info, result,
                   raised, returned, normVars, callVars, iteration>>

\* line 129 and line 78: _walk_files returns, the for loop begins
WalkReturn ==
    /\ pc = "Discovering"
    /\ stack = <<>>
    /\ idx' = 1
    /\ pc' = (IF supported_files = <<>> THEN "Building" ELSE "Extracting")
    /\ UNCHANGED <<rootKind, tree, stack, supported_files, file_dependencies,
                   file_info, result, raised, returned, normVars, callVars, listing, iteration>>

AfterFile == IF idx + 1 > Len(supported_files) THEN "Building" ELSE "Extracting"

\* print(...) of a string with a path in it (lines 90 and 95) raises
\* UnicodeEncodeError: standard output is UTF-8, and with the error handler
\* "strict" (any locale but C and POSIX) a lone surrogate cannot be encoded
PrintRaises(path) == stdout_errors = "strict" /\ SURROGATE \in Range(path)

\* lines 79-90: the file is read and parsed
ExtractOk ==
    /\ pc = "Extracting"
    /\ idx <= Len(supported_files)
    /\ LET file_path == supported_files[idx]
           relative_path == RelPath(file_path, root_path)
           text == FileAt(file_path).text
           parsed == _parse_file(file_path, text)
       IN  /\ ~_parse_file_raises(file_path, text)
           /\ ~PrintRaises(relative_path)
           /\ file_dependencies' = DictPut(file_dependencies, relative_path, parsed[1])
           /\ file_info' = DictPut(file_info, relative_path, parsed[2])
           /\ result' = CountFile(result, parsed[2].language)
    /\ idx' = idx + 1
    /\ pc' = AfterFile
    /\ UNCHANGED <<rootKind, tree, stack, supported_files, raised, returned, normVars, callVars, listing, iteration>>

\* lines 92-95: _parse_file raised
ExtractFail ==
    /\ pc = "Extracting"
    /\ idx <= Len(supported_files)
    /\ LET file_path == supported_files[idx]
       IN  /\ _parse_file_raises(file_path, FileAt(file_path).text)
           /\ ~PrintRaises(file_path)
           /\ result' = RecordError(result, file_path)
    /\ idx' = idx + 1
    /\ pc' = AfterFile
    /\ UNCHANGED <<rootKind, tree, stack, supported_files, file_dependencies,
                   file_info, raised, returned, normVars, callVars, listing, iteration>>

\* lines 79-95, the path cannot be printed: when the file was parsed the
\* print of line 90 raises after the file was recorded and counted, the
\* except branch appends the error string, and in either case the print of
\* line 95, inside the except branch, raises UnicodeEncodeError, which
\* leaves scan_directory
ExtractPrintFails ==
    /\ pc = "Extracting"
    /\ idx <= Len(supported_files)
    /\ LET file_path == supported_files[idx]
           relative_path == RelPath(file_path, root_path)
           text == FileAt(file_path).text
           parsed == _parse_file(file_path, text)
       IN  /\ PrintRaises(file_path)
           /\ IF _parse_file_raises(file_path, text)
              THEN /\ result' = RecordError(result, file_path)
                   /\ UNCHANGED <<file_dependencies, file_info>>
              ELSE /\ file_dependencies' =
                        DictPut(file_dependencies, relative_path, parsed[1])
                   /\ file_info' = DictPut(file_info, relative_path, parsed[2])
                   /\ result' = RecordError(CountFile(result, parsed[2].language),
                                            file_path)
    /\ raised' = "UnicodeEncodeError"
    /\ pc' = "Failed"
    /\ UNCHANGED <<rootKind, tree, stack, supported_files, idx, returned, normVars,
                   callVars, listing, iteration>>

\* save_scan_result(scan_result, project_name) of main (lines 320-323)
project_name == <<"p">>
XRAY_DIR == <<"c", "o", "n", "t", "e", "n", "t", "/", "x", "r", "a", "y">>

\* Build writing the document as well
BuildSaves ==
    /\ pc = "Building"
    /\ \E order \in IterationsOf(file_dependencies) :
         /\ result' = [result EXCEPT
                         !.nodes = _build_nodes(file_info),
                         !.links = _build_links(file_dependencies, file_info, order)]
         /\ iteration' =
              (IF away # <<>> THEN iteration
               ELSE iteration \cup
                      {[file |-> file_dependencies[i].key, order |-> order[i]] :
                          i \in DOMAIN file_dependencies})
    /\ returned' = <<result'>>
    /\ written' = written \cup
                    {[path |-> PathJoin(XRAY_DIR, project_name \o EXT_JSON),
                      content |-> result']}
    /\ pc' = "Done"
    /\ UNCHANGED <<rootKind, tree, stack, supported_files, idx, file_dependencies,
                   file_info, raised, normVars, self, phase, first, away, stdout_errors, nexusVars,
                   listing>>

\* lines 98-107: the graph is built and the document returned
Build ==
    /\ pc = "Building"
    /\ \E order \in IterationsOf(file_dependencies) :
         /\ result' = [result EXCEPT
                         !.nodes = _build_nodes(file_info),
                         !.links = _build_links(file_dependencies, file_info, order)]
         /\ iteration' =
              (IF away # <<>> THEN iteration
               ELSE iteration \cup
                      {[file |-> file_dependencies[i].key, order |-> order[i]] :
                          i \in DOMAIN file_dependencies})
    /\ returned' = <<result'>>
    /\ pc' = "Done"
    /\ UNCHANGED <<rootKind, tree, stack, supported_files, idx, file_dependencies,
                   file_info, raised, normVars, callVars, listing>>

\* lines 273-284: save_scan_result creates content/xray below the working
\* directory and writes the document to content/xray/{project_name}.json,
\* replacing what the file held
Save ==
    /\ pc = "Done"
    /\ LET output_file == PathJoin(XRAY_DIR, project_name \o EXT_JSON)
       IN  written' = {w \in written : w.path # output_file}
                        \cup {[path |-> output_file, content |-> returned[1]]}
    /\ pc' = "Saved"
    /\ UNCHANGED <<rootKind, tree, stack, supported_files, idx, file_dependencies,
                   file_info, result, raised, returned, normVars, self, phase,
                   first, away, stdout_errors, nexusVars, listing, iteration>>

Next == ValidateFail \/ ValidateOk \/ WalkDir \/ WalkReturn \/ ExtractOk
          \/ ExtractFail \/ ExtractPrintFails \/ Build \/ Save

Spec == Init /\ [][Next]_vars

-----------------------------------------------------------------------------
(* One scanner object used for several scans: the root is scanned, then    *)
(* possibly another root, then the first root again, its files unchanged.  *)

MaxRescanFiles == 2

\* the other roots: a path that does not exist, and a directory of two files
OtherRoots ==
    {[kind |-> "missing", tree |-> {}],
     [kind |-> "dir",
      tree |-> {File(<<>>, N_A \o EXT_PY, Text(TRUE, {IMPORT_B})),
                File(<<>>, N_B \o EXT_PY, Text(FALSE, {}))}]}

InitTwice ==
    /\ Init
    /\ rootKind = "dir"
    /\ Cardinality(tree) <= MaxRescanFiles

\* scan_directory is called for another root after the first scan returned
ScanOther ==
    /\ phase = "first"
    /\ pc \in {"Done", "Saved"}
    /\ \E other \in OtherRoots : rootKind' = other.kind /\ tree' = other.tree
    /\ away' = <<[kind |-> rootKind, tree |-> tree]>>
    /\ first' = returned
    /\ phase' = "other"
    /\ pc' = "Idle"
    /\ raised' = NoValue
    /\ returned' = <<>>
    /\ UNCHANGED <<stack, supported_files, idx, file_dependencies, file_info,
                   result, normVars, self, written, stdout_errors, nexusVars,
                   listing, iteration>>

\* scan_directory is called for the first root again: back to back
\* ("again"), or after the scan of another root ended ("back")
ScanAgain ==
    /\ \/ phase = "first" /\ pc \in {"Done", "Saved"}
       \/ phase = "other" /\ pc \in {"Done", "Saved", "Failed"}
    /\ phase' = (IF phase = "first" THEN "again" ELSE "back")
    /\ first' = (IF phase = "first" THEN returned ELSE first)
    /\ rootKind' = (IF away = <<>> THEN rootKind ELSE away[1].kind)
    /\ tree' = (IF away = <<>> THEN tree ELSE away[1].tree)
    /\ away' = <<>>
    /\ pc' = "Idle"
    /\ raised' = NoValue
    /\ returned' = <<>>
    /\ UNCHANGED <<stack, supported_files, idx, file_dependencies, file_info,
                   result, normVars, self, written, stdout_errors, nexusVars,
                   listing, iteration>>

\* scan_directory is called for a copy of the root on another file system,
\* in another process: the files are the same, the orders in which the
\* directories list them and the sets iterate are not
ScanCopy ==
    /\ phase = "first"
    /\ pc \in {"Done", "Saved"}
    /\ phase' = "copy"
    /\ first' = returned
    /\ listing' = {}
    /\ iteration' = {}
    /\ pc' = "Idle"
    /\ raised' = NoValue
    /\ returned' = <<>>
    /\ UNCHANGED <<rootKind, tree, stack, supported_files, idx, file_dependencies,
                   file_info, result, normVars, self, written, away, stdout_errors,
                   nexusVars>>

NextTwice == Next \/ ScanOther \/ ScanAgain \/ ScanCopy

SpecTwice == InitTwice /\ [][NextTwice]_vars

\* scan_directory is sequential code that nothing blocks: os.walk visits
\* each directory of a finite tree once, the for loop takes each discovered
\* file once, so a step that is possible is eventually taken
FairSpec == Spec /\ WF_vars(Next)

-----------------------------------------------------------------------------
(* The Import Normalizer on its own: _clean_js_import applied to a raw     *)
(* module string, and again to its own result.                             *)

Tokens ==
    { <<"a">>, <<SLASH>>, <<DOT>>, <<"j", "s">>, <<"x">>,
      EXT_JS, EXT_JSX, EXT_TS, EXT_TSX, EXT_JSON, EXT_PY }

RawStrings ==
    {Flatten(ts) : ts \in UNION {[1..n -> Tokens] : n \in 0..MaxTokens}}

InitNorm ==
    /\ rootKind = "missing"
    /\ tree = {}
    /\ pc = "Normalizer"
    /\ stack = <<>>
    /\ supported_files = <<>>
    /\ idx = 1
    /\ file_dependencies = <<>>
    /\ file_info = <<>>
    /\ result = EmptyResult
    /\ raised = NoValue
    /\ returned = <<>>
    /\ raw \in RawStrings
    /\ once = <<>>
    /\ twice = <<>>
    /\ FirstCall
    /\ stdout_errors = "strict"

Normalize ==
    /\ pc = "Normalizer"
    /\ once = <<>>
    /\ once' = <<_clean_js_import(raw)>>
    /\ UNCHANGED <<scanVars, raw, twice>>

Renormalize ==
    /\ pc = "Normalizer"
    /\ once # <<>>
    /\ twice = <<>>
    /\ twice' = <<_clean_js_import(once[1])>>
    /\ UNCHANGED <<scanVars, raw, once>>

NextNorm == Normalize \/ Renormalize

SpecNorm == InitNorm /\ [][NextNorm]_vars

-----------------------------------------------------------------------------
(* The Import Extractor on its own: _parse_file applied to one readable    *)
(* file a.py or a.ts whose text holds given import statements.             *)

MaxComponents == 2  \* components of a dotted Python module name
MaxStatements == 2  \* import statements in a Python file

\* '.'.join(parts)
RECURSIVE JoinDots(_)
JoinDots(parts) ==
    IF Len(parts) = 1 THEN Head(parts)
    ELSE Head(parts) \o <<DOT>> \o JoinDots(Tail(parts))

\* dotted module names of components a and b
PyModules ==
    {JoinDots(parts) : parts \in UNION {[1..n -> {N_A, N_B}] : n \in 1..MaxComponents}}

\* import X, from X import ..., from .b import ..., from . import ...
PyStatements ==
    {[form |-> f, module |-> m, level |-> 0] : f \in {"import", "from"}, m \in PyModules}
      \cup {FROM_DOT_B, FROM_DOT}

\* the subsets of S of at most n elements
RECURSIVE SubsetsUpTo(_, _)
SubsetsUpTo(S, n) ==
    IF n = 0 THEN {{}}
    ELSE LET smaller == SubsetsUpTo(S, n - 1)
         IN  smaller \cup {t \cup {x} : t \in smaller, x \in S}

\* import X from "m", import { f } from "m", require("m"): the patterns of
\* lines 183-191 capture [^"']+, a module string of at least one character
JsStatements ==
    {[form |-> f, module |-> m] :
        f \in {"default", "destructured", "require"}, m \in RawStrings \ {<<>>}}

\* the files the extractor is applied to: Python source of at most n
\* import statements that ast.parse accepts, and TypeScript source of one
\* import statement or none
ParsedFiles(n) ==
    {File(<<>>, N_A \o EXT_PY, Text(TRUE, c)) : c \in SubsetsUpTo(PyStatements, n)}
      \cup {File(<<>>, N_A \o EXT_TS, Text(TRUE, {st})) : st \in JsStatements}
      \cup {File(<<>>, N_A \o EXT_TS, Text(TRUE, {}))}

InitParse ==
    /\ rootKind = "dir"
    /\ \E f \in ParsedFiles(MaxStatements) : tree = {f}
    /\ pc = "Parser"
    /\ stack = <<>>
    /\ supported_files = <<>>
    /\ idx = 1
    /\ file_dependencies = <<>>
    /\ file_info = <<>>
    /\ result = EmptyResult
    /\ raised = NoValue
    /\ returned = <<>>
    /\ raw = <<>>
    /\ once = <<>>
    /\ twice = <<>>
    /\ FirstCall
    /\ stdout_errors = "strict"

\* lines 131-154: _parse_file(file_path) returns the dependencies and the
\* metadata of the file
ParseFile ==
    /\ pc = "Parser"
    /\ \E f \in tree :
         LET file_path == FilePath(f)
             parsed == _parse_file(file_path, f.text)
         IN  /\ ~_parse_file_raises(file_path, f.text)
             /\ file_dependencies' = DictPut(file_dependencies, file_path, parsed[1])
             /\ file_info' = DictPut(file_info, file_path, parsed[2])
    /\ pc' = "Parsed"
    /\ UNCHANGED <<rootKind, tree, stack, supported_files, idx, result, raised,
                   returned, normVars, callVars, listing, iteration>>

NextParse == ParseFile

SpecParse == InitParse /\ [][NextParse]_vars

-----------------------------------------------------------------------------
(* The Nexus tools (nexus_sdk.py, nexus_mcp.py): NexusBrain.recall and     *)
(* NexusBrain.search_solutions ask the Nexus server over HTTP and format   *)
(* its JSON answer; the MCP tool upload_trail_document hands a document to *)
(* the NexusLogger.  A JSON value is a record of one field, named after    *)
(* its Python type; a formatted string is the sequence of its parts.       *)

MaxResults == 2

Null == [null |-> 0]
Bool(b) == [bool |-> b]
Str(s) == [str |-> s]
List(items) == [list |-> items]
Dict(fields) == [dict |-> fields]

\* type(v)
TypeOf(v) == CHOOSE t \in DOMAIN v : TRUE

\* the outcome of an evaluation: a value, or an exception raised
Value(v) == [raises |-> FALSE, value |-> v]
Raise(e) == [raises |-> TRUE, value |-> e]

\* bool(v)
Truthy(v) ==
    IF TypeOf(v) = "bool" THEN v.bool
    ELSE IF TypeOf(v) = "str" THEN v.str # ""
    ELSE IF TypeOf(v) = "list" THEN Len(v.list) > 0
    ELSE IF TypeOf(v) = "dict" THEN DOMAIN v.dict # {}
    ELSE FALSE

\* d.get(key, default) of a dict
Get(d, key, default) == IF key \in DOMAIN d.dict THEN d.dict[key] ELSE default

\* v[key] raises: KeyError when a dict lacks the key, TypeError when v is
\* no dict (a string or a list indexed by a string, None, a bool)
SubscriptError(v, key) ==
    IF TypeOf(v) # "dict" THEN "TypeError"
    ELSE IF key \notin DOMAIN v.dict THEN "KeyError"
    ELSE NoValue

\* the items "for x in v" yields, for v a list; iterating a string yields its
\* characters, a dict its keys, both strings
Iterated(v) ==
    IF TypeOf(v) = "list" THEN v.list
    ELSE IF TypeOf(v) = "str" THEN [i \in 1..(IF v.str = "" THEN 0 ELSE 1) |-> Str("c")]
    ELSE IF TypeOf(v) = "dict"
         THEN [i \in 1..(IF DOMAIN v.dict = {} THEN 0 ELSE 1) |-> Str("k")]
    ELSE <<>>

\* "for x in v" raises TypeError: None and bool are not iterable
IterationError(v) == IF TypeOf(v) \in {"null", "bool"} THEN "TypeError" ELSE NoValue

\* the first exception one of the subscripts item[key], for the items in
\* order and for each the keys in order, raises; NoValue when none does
RECURSIVE FirstSubscriptError(_, _)
FirstSubscriptError(items, keys) ==
    IF items = <<>> THEN NoValue
    ELSE LET errors == [k \in DOMAIN keys |-> SubscriptError(Head(items), keys[k])]
             bad == {k \in DOMAIN keys : errors[k] # NoValue}
         IN  IF bad # {} THEN errors[Min(bad)]
             ELSE FirstSubscriptError(Tail(items), keys)

base_url == "http://localhost:3000"

\* lines 495-496 and 548-549: the strings the except branches return
RecallFailure(e) ==
    <<"Unable to query knowledge base: ", e, ". Is the Nexus server running at ",
      base_url, "?">>
SearchFailure(e) ==
    <<"Unable to search for solutions: ", e, ". Is the Nexus server running at ",
      base_url, "?">>

\* lines 478-493 of recall: the answer is formatted
FormatRecall(d) ==
    IF TypeOf(d) # "dict" THEN Raise("AttributeError")
    ELSE LET answer == Get(d, "answer", Str("No answer provided"))
             sources == Get(d, "sources", List(<<>>))
             simulated == Get(d, "simulated", Bool(FALSE))
             head == <<"Nexus Recall: ", answer>>
                       \o (IF Truthy(simulated) THEN <<"simulated response">> ELSE <<>>)
             items == Iterated(sources)
         IN  IF ~Truthy(sources) THEN Value(head)
             ELSE IF IterationError(sources) # NoValue
                  THEN Raise(IterationError(sources))
             ELSE IF FirstSubscriptError(items, <<"title", "type">>) # NoValue
                  THEN Raise(FirstSubscriptError(items, <<"title", "type">>))
             ELSE Value(head \o <<"Sources:">>
                          \o [i \in 1..(2 * Len(items)) |->
                                IF i % 2 = 1 THEN items[(i + 1) \div 2].dict["title"]
                                ELSE items[i \div 2].dict["type"]])

\* line 526 of search_solutions: r.get('type') == 'note' and
\* r.get('status') == 'failure', for r a dict
IsFailure(r) ==
    /\ Get(r, "type", Null) = Str("note")
    /\ Get(r, "status", Null) = Str("failure")

\* lines 523-546 of search_solutions: the failures are selected and formatted
FormatSearch(d, error_message) ==
    IF TypeOf(d) # "dict" THEN Raise("AttributeError")
    ELSE LET results == Get(d, "results", List(<<>>))
             items == Iterated(results)
             IsDictItem(r) == TypeOf(r) = "dict"
             failures == SelectSeq(SelectSeq(items, IsDictItem), IsFailure)
         IN  IF IterationError(results) # NoValue THEN Raise(IterationError(results))
             ELSE IF \E i \in DOMAIN items : TypeOf(items[i]) # "dict"
                  THEN Raise("AttributeError")
             ELSE IF failures = <<>>
                  THEN Value(<<"No past failures found related to: ", error_message>>)
             ELSE IF FirstSubscriptError(failures, <<"title", "snippet", "slug">>) # NoValue
                  THEN Raise(FirstSubscriptError(failures, <<"title", "snippet", "slug">>))
             ELSE Value(<<"Found ", Len(failures), " related past failures:">>
                          \o [i \in 1..(3 * Len(failures)) |->
                                LET f == failures[(i + 2) \div 3].dict
                                IN  IF i % 3 = 1 THEN f["title"]
                                    ELSE IF i % 3 = 2 THEN f["snippet"]
                                    ELSE f["slug"]])

\* except Exception, for the exceptions of the model: URLError, HTTPError,
\* TimeoutError, UnicodeDecodeError, JSONDecodeError, AttributeError,
\* KeyError and TypeError are all subclasses of Exception
ExceptURLError(e) == e \in {"URLError", "HTTPError"}
ExceptException(e) == e # NoValue

\* what the server may do with a request: not answer at all, answer too
\* late, answer with an error status, or answer with a body
Source(title, type) == Dict([title |-> Str(title), type |-> Str(type)])

Result(type, status) ==
    Dict([type |-> Str(type), status |-> Str(status), title |-> Str("t"),
          snippet |-> Str("s"), slug |-> Str("g")])

\* the items of the "results" of an answer: failures, complete and without
\* a slug, a success, and an item that is no object
ResultItems ==
    << Result("note", "failure"),
       Dict([type |-> Str("note"), status |-> Str("failure"), title |-> Str("t"),
             snippet |-> Str("s")]),
       Result("note", "success"),
       Str("x") >>

ResultLists == UNION {[1..n -> Range(ResultItems)] : n \in 0..MaxResults}

\* the bodies of the model: bytes that are no UTF-8, text that is no JSON,
\* and JSON values of every shape the two methods tell apart
Bodies ==
    {[utf8 |-> FALSE, json |-> <<>>], [utf8 |-> TRUE, json |-> <<>>]}
      \cup {[utf8 |-> TRUE, json |-> <<d>>] :
              d \in {Null, List(<<>>), Dict(<<>>),
                     Dict([answer |-> Str("A")]),
                     Dict([answer |-> Str("A"), simulated |-> Bool(TRUE),
                           sources |-> List(<<Source("t", "note"), Source("u", "trail")>>)]),
                     Dict([answer |-> Str("A"),
                           sources |-> List(<<Dict([title |-> Str("t")])>>)]),
                     Dict([answer |-> Str("A"), sources |-> Str("x")]),
                     Dict([results |-> Null])}}
      \cup {[utf8 |-> TRUE, json |-> <<Dict([results |-> List(rs)])>>] :
              rs \in ResultLists}

\* the calls of the model
Queries == {"q", "r"}
Slugs == {"known", "unknown"}
FrontmatterUpdates ==
    {[given |-> FALSE, text |-> "", valid |-> TRUE],
     [given |-> TRUE, text |-> "", valid |-> FALSE],
     [given |-> TRUE, text |-> "{\"status\": \"Mastered\"}", valid |-> TRUE],
     [given |-> TRUE, text |-> "{status", valid |-> FALSE]}

Calls ==
    {[op |-> "recall", query |-> q] : q \in Queries}
      \cup {[op |-> "search_solutions", error_message |-> q] : q \in Queries}
      \cup {[op |-> "upload_trail_document", slug |-> g, markdown_content |-> "new",
             frontmatter_updates |-> u] : g \in Slugs, u \in FrontmatterUpdates}

\* the methods of class NexusLogger (nexus_sdk.py, lines 115-430)
NexusLoggerMethods ==
    {"__init__", "_run_git_command", "log", "create_trail", "update_trail",
     "_download_and_save_image", "_auto_commit_trail", "_auto_commit"}

InitNexus ==
    /\ rootKind = "missing"
    /\ tree = {}
    /\ pc = "Called"
    /\ stack = <<>>
    /\ supported_files = <<>>
    /\ idx = 1
    /\ file_dependencies = <<>>
    /\ file_info = <<>>
    /\ result = EmptyResult
    /\ raised = NoValue
    /\ returned = <<>>
    /\ raw = <<>>
    /\ once = <<>>
    /\ twice = <<>>
    /\ self = Scanner
    /\ written = {}
    /\ phase = "first"
    /\ first = <<>>
    /\ away = <<>>
    /\ stdout_errors = "strict"
    /\ listing = {}
    /\ iteration = {}
    /\ call \in Calls
    /\ response = <<>>
    /\ exc = NoValue
    /\ data = <<>>
    /\ trails = [g \in {"known"} |-> "old"]

notNexus == <<rootKind, tree, stack, supported_files, idx, file_dependencies,
              file_info, result, raw, once, twice, self, written, phase, first,
              away, stdout_errors, listing, iteration>>

\* recall lines 464-475, search_solutions lines 512-520: the request is
\* built and urlopen is called; it raises URLError when the server cannot be
\* reached, TimeoutError when it does not answer in time, HTTPError when it
\* answers with an error status, else it gives the response
Urlopen ==
    /\ pc = "Called"
    /\ call.op \in {"recall", "search_solutions"}
    /\ \/ \E e \in {"URLError", "TimeoutError", "HTTPError"} :
            /\ exc' = e
            /\ response' = <<>>
            /\ pc' = "Except"
       \/ \E body \in Bodies :
            /\ response' = <<body>>
            /\ exc' = NoValue
            /\ pc' = "Responded"
    /\ UNCHANGED <<notNexus, call, data, trails, raised, returned>>

\* recall line 475, search_solutions line 520:
\* json.loads(response.read().decode('utf-8'))
Loads ==
    /\ pc = "Responded"
    /\ LET body == response[1]
       IN  IF ~body.utf8
           THEN exc' = "UnicodeDecodeError" /\ data' = <<>> /\ pc' = "Except"
           ELSE IF body.json = <<>>
           THEN exc' = "JSONDecodeError" /\ data' = <<>> /\ pc' = "Except"
           ELSE exc' = NoValue /\ data' = body.json /\ pc' = "Loaded"
    /\ UNCHANGED <<notNexus, call, response, trails, raised, returned>>

\* recall lines 478-493, search_solutions lines 523-546: the answer is
\* formatted and returned, unless formatting raises
Format ==
    /\ pc = "Loaded"
    /\ LET formatted == IF call.op = "recall" THEN FormatRecall(data[1])
                        ELSE FormatSearch(data[1], call.error_message)
       IN  IF formatted.raises
           THEN exc' = formatted.value /\ pc' = "Except" /\ UNCHANGED returned
           ELSE returned' = <<formatted.value>> /\ pc' = "Returned" /\ UNCHANGED exc
    /\ UNCHANGED <<notNexus, call, response, data, trails, raised>>

\* recall lines 495-496, search_solutions lines 548-549: except Exception
Except ==
    /\ pc = "Except"
    /\ call.op \in {"recall", "search_solutions"}
    /\ IF ExceptException(exc)
       THEN /\ returned' = <<IF call.op = "recall" THEN RecallFailure(exc)
                             ELSE SearchFailure(exc)>>
            /\ pc' = "Returned"
            /\ UNCHANGED raised
       ELSE /\ raised' = exc
            /\ pc' = "Raised"
            /\ UNCHANGED returned
    /\ UNCHANGED <<notNexus, call, response, data, trails, exc>>

\* upload_trail_document, lines 205-211: the frontmatter updates are parsed
ParseFrontmatter ==
    /\ pc = "Called"
    /\ call.op = "upload_trail_document"
    /\ LET u == call.frontmatter_updates
       IN  IF u.given /\ u.text # "" /\ ~u.valid
           THEN /\ returned' = << <<"Invalid JSON in frontmatter_updates">> >>
                /\ pc' = "Returned"
           ELSE /\ pc' = "Uploading"
                /\ UNCHANGED returned
    /\ UNCHANGED <<notNexus, nexusVars, raised>>

\* upload_trail_document, line 214: looking up update_trail_content on the
\* NexusLogger raises AttributeError, the class having no such method
UpdateTrailContent ==
    /\ pc = "Uploading"
    /\ "update_trail_content" \notin NexusLoggerMethods
    /\ exc' = "AttributeError"
    /\ pc' = "Except"
    /\ UNCHANGED <<notNexus, call, response, data, trails, raised, returned>>

\* upload_trail_document, lines 217-218: except Exception
UploadExcept ==
    /\ pc = "Except"
    /\ call.op = "upload_trail_document"
    /\ returned' = << <<"Failed to upload document: ", exc>> >>
    /\ pc' = "Returned"
    /\ UNCHANGED <<notNexus, nexusVars, raised>>

NextNexus == Urlopen \/ Loads \/ Format \/ Except \/ ParseFrontmatter
               \/ UpdateTrailContent \/ UploadExcept

SpecNexus == InitNexus /\ [][NextNexus]_vars

-----------------------------------------------------------------------------
(* Properties.                                                             *)

Returned == returned # <<>>
Document == returned[1]
NodeIds(doc) == {doc.nodes[i].id : i \in DOMAIN doc.nodes}

\* C1: in every returned document both ends of every link are ids of nodes
\* of the same document, also when some files failed extraction
NoDanglingEdges ==
    Returned =>
        \A l \in Range(Document.links) :
            l.source \in NodeIds(Document) /\ l.target \in NodeIds(Document)

\* a document with a link, returned by a scan in which a file failed
NoDanglingEdgesWitness ==
    /\ Returned
    /\ Document.links # <<>>
    /\ Document.metadata.scan_errors # <<>>

\* C2: in every returned document total_files is the number of nodes and the
\* language counts add up to total_files, whatever files failed
CountsAgree ==
    Returned =>
        /\ Document.metadata.total_files = Len(Document.nodes)
        /\ SumValues(Document.metadata.languages) = Document.metadata.total_files

\* a document of two languages returned by a scan in which a file failed
CountsAgreeWitness ==
    /\ Returned
    /\ Document.metadata.scan_errors # <<>>
    /\ Cardinality(DOMAIN Document.metadata.languages) = 2
    /\ Document.metadata.total_files = 2

StackedSuffixes(x) ==
    \E e1, e2 \in {EXT_JS, EXT_JSX, EXT_TS, EXT_TSX, EXT_JSON} :
        EndsWith(LastSegment(x), e1 \o e2)

Dependencies ==
    UNION {{<<file_dependencies[i].key, dep>> : dep \in file_dependencies[i].value} :
             i \in DOMAIN file_dependencies}

Parsed == DictKeys(file_dependencies)

\* the positions of the document's links from source to one of targets
LinksTo(doc, source, targets) ==
    {j \in DOMAIN doc.links :
        doc.links[j].source = source /\ doc.links[j].target \in targets}

\* the name with every supported extension, at the root and inside the
\* source file's top-level directory
EveryExtension(from_file, dep) ==
    {dep \o e : e \in {EXT_PY, EXT_JS, EXT_TS, EXT_TSX, EXT_JSX}}
      \cup {FirstSegment(from_file) \o <<SLASH>> \o dep \o e :
              e \in {EXT_PY, EXT_JS, EXT_TS, EXT_TSX, EXT_JSX}}

\* C4: a dependency whose only matching parsed file has one of the supported
\* extensions (.py, .js, .ts, .tsx, .jsx), at the root or inside the source
\* file's top-level directory, produces a link to that file
EverySupportedExtensionLinks ==
    Returned =>
        \A d \in Dependencies :
            LET matching == EveryExtension(d[1], d[2]) \cap Parsed
            IN  Cardinality(matching) = 1 => LinksTo(Document, d[1], matching) # {}

\* the priority order: name.py, name.js, name.ts at the root, then the same
\* inside the source file's top-level directory
Priority(from_file, dep) ==
    << dep \o EXT_PY, dep \o EXT_JS, dep \o EXT_TS,
       FirstSegment(from_file) \o <<SLASH>> \o dep \o EXT_PY,
       FirstSegment(from_file) \o <<SLASH>> \o dep \o EXT_JS,
       FirstSegment(from_file) \o <<SLASH>> \o dep \o EXT_TS >>

Existing(from_file, dep) ==
    LET prio == Priority(from_file, dep)
        parsed == Parsed
    IN  {k \in 1..6 : prio[k] \in parsed}

\* C5: for every source file and dependency name at most one link is emitted,
\* and when a candidate exists the link's target is the first existing
\* candidate of the priority order
FirstCandidateWins ==
    Returned =>
        \A d \in Dependencies :
            LET prio == Priority(d[1], d[2])
                emitted == LinksTo(Document, d[1], Range(prio))
                existing == Existing(d[1], d[2])
            IN  /\ Cardinality(emitted) <= 1
                /\ existing # {} =>
                     /\ Cardinality(emitted) = 1
                     /\ \A j \in emitted :
                          Document.links[j].target = prio[Min(existing)]

\* a dependency with a candidate at the root and a lower one in the source
\* file's directory, linked once
FirstCandidateWinsWitness ==
    /\ Returned
    /\ \E d \in Dependencies :
         /\ \E k \in Existing(d[1], d[2]) : k <= 3
         /\ \E k \in Existing(d[1], d[2]) : k >= 4
         /\ Cardinality(LinksTo(Document, d[1], Range(Priority(d[1], d[2])))) = 1

Discovered == Range(supported_files)

\* the file at a path cannot be parsed: it cannot be read, or it is Python
\* source on which the parser raises something other than a SyntaxError
CannotBeParsed(p) ==
    LET text == FileAt(p).text
    IN  \/ ~text.readable
        \/ EndsWith(p, EXT_PY) /\ text.parse \notin {"ok", "SyntaxError"}

\* C6: a dependency name no candidate matches adds no link and no scan error
\* and changes neither the nodes nor the counts: the links are those of the
\* resolved dependencies, the errors those of the files that failed, the
\* nodes and the count those of the files that were parsed
UnresolvedDropped ==
    Returned =>
        LET resolved == {d \in Dependencies : Existing(d[1], d[2]) # {}}
            discovered == Discovered
        IN  /\ Len(Document.links) = Cardinality(resolved)
            /\ \A d \in Dependencies \ resolved :
                   LinksTo(Document, d[1], Range(Priority(d[1], d[2]))) = {}
            /\ Len(Document.metadata.scan_errors) =
                 Cardinality({p \in discovered : CannotBeParsed(p)})
            /\ Len(Document.nodes) =
                 Cardinality({p \in discovered : ~CannotBeParsed(p)})
            /\ Document.metadata.total_files = Len(Document.nodes)

\* a scan with a resolved and an unresolved dependency
UnresolvedDroppedWitness ==
    /\ Returned
    /\ \E d \in Dependencies : Existing(d[1], d[2]) = {}
    /\ \E d \in Dependencies : Existing(d[1], d[2]) # {}
    /\ Len(Document.links) = 1

\* a readable TypeScript file x.ts whose only import is of module "./y"
\* (a.ts importing "./b" in the model's trees)
ImportsOnlyDotSlashB(f) ==
    /\ f.name = N_A \o EXT_TS
    /\ f.text.readable
    /\ f.text.imports = {BRACES_B}

NoFileNamed(names) == \A g \in tree : g.name \notin names

LinksFromFile(doc, f) ==
    {j \in DOMAIN doc.links : doc.links[j].source = RelPath(FilePath(f), root_path)}

\* C7 as stated: when the project holds no y.ts and no y.js, the scan
\* produces no link whose source is x.ts
NoLinkWithoutTsOrJs ==
    Returned =>
        \A f \in tree :
            (ImportsOnlyDotSlashB(f) /\ NoFileNamed({N_B \o EXT_TS, N_B \o EXT_JS}))
                => LinksFromFile(Document, f) = {}

\* C7 as amended: when the project holds no y.py, no y.ts and no y.js, the
\* scan produces no link whose source is x.ts
NoLinkWithoutPyTsOrJs ==
    Returned =>
        \A f \in tree :
            (ImportsOnlyDotSlashB(f)
               /\ NoFileNamed({N_B \o EXT_PY, N_B \o EXT_TS, N_B \o EXT_JS}))
                => LinksFromFile(Document, f) = {}

\* x.ts was parsed with the dependency y, beside a parsed y.tsx, and no
\* y.py, y.ts or y.js
NoLinkWithoutPyTsOrJsWitness ==
    /\ Returned
    /\ NoFileNamed({N_B \o EXT_PY, N_B \o EXT_TS, N_B \o EXT_JS})
    /\ N_B \o EXT_TSX \in Parsed
    /\ \E f \in tree :
         /\ ImportsOnlyDotSlashB(f)
         /\ <<RelPath(FilePath(f), root_path), N_B>> \in Dependencies

A_PY == N_A \o EXT_PY
B_PY == N_B \o EXT_PY

\* the root holding a.py, which imports b, and b.py without imports
TwoPythonFiles ==
    { File(<<>>, A_PY, Text(TRUE, {IMPORT_B})), File(<<>>, B_PY, Text(TRUE, {})) }

\* C8: the scan of a.py importing b and b.py without imports returns exactly
\* the nodes a.py and b.py and exactly the link a.py -> b.py of value 1; every
\* link of every document has value 1
OneLinkOfValueOne ==
    Returned =>
        /\ \A l \in Range(Document.links) : l.value = 1
        /\ tree = TwoPythonFiles =>
             /\ Len(Document.nodes) = 2
             /\ NodeIds(Document) = {A_PY, B_PY}
             /\ Document.links = <<[source |-> A_PY, target |-> B_PY, value |-> 1]>>

\* the scan of that root returned its one link
OneLinkOfValueOneWitness ==
    Returned /\ tree = TwoPythonFiles /\ Len(Document.links) = 1

\* the files below a directory of the skip list
BelowSkipped == {f \in tree : \E k \in DOMAIN f.dirs : f.dirs[k] \in skip_dirs}

\* C9: no directory of the skip list is visited and no file below one is
\* discovered or appears as a node, a link end or in scan_errors; a root
\* holding only such files yields an empty document without errors
SkippedNeverScanned ==
    /\ \A dirs \in Range(stack) : \A k \in DOMAIN dirs : dirs[k] \notin skip_dirs
    /\ \A f \in BelowSkipped : FilePath(f) \notin Discovered
    /\ Returned =>
         /\ \A f \in BelowSkipped :
              /\ RelPath(FilePath(f), root_path) \notin NodeIds(Document)
              /\ \A l \in Range(Document.links) :
                   /\ l.source # RelPath(FilePath(f), root_path)
                   /\ l.target # RelPath(FilePath(f), root_path)
              /\ \A e \in Range(Document.metadata.scan_errors) :
                   e.file_path # FilePath(f)
         /\ BelowSkipped = tree =>
              /\ Document.metadata.total_files = 0
              /\ Document.nodes = <<>>
              /\ Document.links = <<>>
              /\ Document.metadata.scan_errors = <<>>

\* the scan of a root holding only files below skipped directories, one of
\* the directories at the root and one nested, returned
SkippedNeverScannedWitness ==
    Returned /\ Cardinality(tree) = 2 /\ BelowSkipped = tree

\* C10: for a root that does not exist or is no directory scan_directory
\* raises one ValueError and returns no document, and nothing is discovered,
\* extracted or built
InvalidRootRaises ==
    rootKind # "dir" =>
        /\ pc \in {"Idle", "Failed"}
        /\ returned = <<>>
        /\ stack = <<>> /\ supported_files = <<>>
        /\ file_dependencies = <<>> /\ file_info = <<>>
        /\ result = EmptyResult
        /\ pc = "Failed" =>
             raised = (IF rootKind = "missing" THEN "ValueError: Path does not exist"
                       ELSE "ValueError: Path is not a directory")
        /\ pc = "Idle" => raised = NoValue

\* the scan of a root that is a file has failed
InvalidRootRaisesWitness ==
    pc = "Failed" /\ rootKind = "file" /\ raised = "ValueError: Path is not a directory"

\* a discovered path relative to the root: what follows "root_path/"
RootRelative(p) == SubSeq(p, Len(root_path) + 2, Len(p))

\* the paths the error strings of a document name
ErrorPaths(doc) ==
    {doc.metadata.scan_errors[i].file_path : i \in DOMAIN doc.metadata.scan_errors}

\* the scan ended with an exception at the discovered file p
AbortedAt(p) ==
    /\ pc = "Failed"
    /\ idx \in DOMAIN supported_files
    /\ supported_files[idx] = p

\* C11: when the extraction of a discovered file raises, the scan does not
\* end with an exception at that file, and in the document it returns the
\* file is named by an error string, is no node, no link source and no link
\* target, while every other discovered file whose extraction succeeds is a
\* node
PerFileFailureContained ==
    /\ \A p \in Discovered : CannotBeParsed(p) => ~AbortedAt(p)
    /\ Returned =>
         \A p \in Discovered :
            IF CannotBeParsed(p)
            THEN /\ p \in ErrorPaths(Document)
                 /\ RootRelative(p) \notin NodeIds(Document)
                 /\ \A l \in Range(Document.links) :
                       l.source # RootRelative(p) /\ l.target # RootRelative(p)
            ELSE RootRelative(p) \in NodeIds(Document)

\* the discovered Python files whose content ast.parse does not accept
RejectedByParser ==
    {p \in Discovered :
        EndsWith(p, EXT_PY) /\ FileAt(p).text.readable /\ FileAt(p).text.parse # "ok"}

\* the nodes of a document with a given id
NodesOf(doc, id) == {n \in Range(doc.nodes) : n.id = id}

\* C12: a readable Python file whose content the parser rejects is a node
\* with the size and the line count of its text, and no error string names it
RejectedPythonStillNode ==
    Returned =>
        \A p \in RejectedByParser :
            /\ p \notin ErrorPaths(Document)
            /\ \E n \in NodesOf(Document, RootRelative(p)) :
                  /\ n.size = FileAt(p).text.chars
                  /\ n.lines = FileAt(p).text.newlines + 1

\* C12 for the one failure the code recovers from: a readable Python file on
\* which ast.parse raises SyntaxError is a node, named by no error string,
\* and its dependencies are what the regular expression finds
SyntaxErrorStillNode ==
    Returned =>
        \A p \in RejectedByParser :
            FileAt(p).text.parse = "SyntaxError" =>
                /\ p \notin ErrorPaths(Document)
                /\ NodesOf(Document, RootRelative(p)) # {}

\* a document whose links come from a Python file with a syntax error
SyntaxErrorStillNodeWitness ==
    /\ Returned
    /\ \E p \in RejectedByParser :
         /\ FileAt(p).text.parse = "SyntaxError"
         /\ \E l \in Range(Document.links) : l.source = RootRelative(p)

\* C13: the scan of a valid root never raises, whatever files fail, and
\* eventually returns a document
ScanCompletes ==
    /\ [](rootKind = "dir" => (raised = NoValue /\ pc # "Failed"))
    /\ (rootKind = "dir") ~> Returned

\* the discovered files whose extraction succeeds
Extracted == {p \in Discovered : ~CannotBeParsed(p)}

\* C14: in every returned document the node ids are pairwise distinct, each
\* is the root-relative path of a discovered file, and every successfully
\* extracted file has exactly one node, the nodes being as many as these files
NodesOneToOne ==
    Returned =>
        LET extracted == Extracted
        IN  /\ \A i, j \in DOMAIN Document.nodes :
                  i # j => Document.nodes[i].id # Document.nodes[j].id
            /\ NodeIds(Document) \subseteq {RootRelative(p) : p \in Discovered}
            /\ \A p \in extracted :
                  Cardinality({i \in DOMAIN Document.nodes :
                                 Document.nodes[i].id = RootRelative(p)}) = 1
            /\ Len(Document.nodes) = Cardinality(extracted)

\* a document of three nodes for three files of the same name in three
\* directories
NodesOneToOneWitness ==
    /\ Returned
    /\ Len(Document.nodes) = 3
    /\ \A i \in DOMAIN Document.nodes : Document.nodes[i].name = Document.nodes[1].name

\* C15: no scan changes the scanner object, and a scan of the root whose
\* files are unchanged, run on the same instance right after the first scan
\* or after the scan of another root, returns the document the first scan
\* returned (the model's document has no scan_time)
ScansReproducible ==
    /\ self = Scanner
    /\ (phase \in {"again", "back"} /\ Returned) => returned = first

\* a document with a link returned by the scan of the root that follows the
\* scan of another root
ScansReproducibleWitness ==
    /\ phase = "back"
    /\ Returned
    /\ Document.links # <<>>
    /\ Len(Document.nodes) = 2

\* C16: no step of a scan changes the scanned tree or the kind of the root,
\* and the only step that changes the files on disk is save_scan_result
ScanWritesNothing ==
    [][/\ tree' = tree
       /\ rootKind' = rootKind
       /\ written' # written => (pc = "Done" /\ pc' = "Saved")]_vars

\* the document of a scan with a failed file, on disk after save_scan_result
ScanWritesNothingWitness ==
    /\ pc = "Saved"
    /\ Document.nodes # <<>>
    /\ Document.metadata.scan_errors # <<>>
    /\ written = {[path |-> XRAY_DIR \o <<SLASH>> \o project_name \o EXT_JSON,
                   content |-> Document]}

\* the discovered files that can be read and hold bytes that are no valid
\* UTF-8, and whose remaining text the extractor accepts
Undecodables ==
    {p \in Discovered :
        LET text == FileAt(p).text
        IN  /\ text.invalid > 0
            /\ text.readable
            /\ text.parse \in {"ok", "SyntaxError"}}

\* C17: at a readable file with bytes that are no valid text the scan never
\* ends with an exception, and no error string names the file; it is a node whose size is
\* that of the text that remains, and the imports of that text are its
\* dependencies
LossyDecoding ==
    /\ pc = "Failed" => \A p \in Undecodables : ~AbortedAt(p)
    /\ Returned =>
         \A p \in Undecodables :
            /\ p \notin ErrorPaths(Document)
            /\ \E n \in NodesOf(Document, RootRelative(p)) :
                  n.size = FileAt(p).text.chars
            /\ \A st \in FileAt(p).text.imports :
                  st \in {IMPORT_B, BRACES_B} => <<RootRelative(p), N_B>> \in Dependencies

\* a document with a link from a file holding undecodable bytes
LossyDecodingWitness ==
    /\ Returned
    /\ \E p \in Undecodables :
         \E l \in Range(Document.links) : l.source = RootRelative(p)

\* the positions of the error strings of a document that name the path p
ErrorsNaming(doc, p) ==
    {i \in DOMAIN doc.metadata.scan_errors : doc.metadata.scan_errors[i].file_path = p}

\* C18: in every returned document the nodes and the error strings together
\* are as many as the discovered files, every discovered file that failed is
\* named by exactly one error string, every error string names such a file,
\* and no file is both a node and named by an error string
OneErrorPerFailure ==
    Returned =>
        /\ Len(Document.nodes) + Len(Document.metadata.scan_errors)
              = Len(supported_files)
        /\ \A p \in Discovered :
              /\ CannotBeParsed(p) => Cardinality(ErrorsNaming(Document, p)) = 1
              /\ ~(RootRelative(p) \in NodeIds(Document) /\ p \in ErrorPaths(Document))
        /\ ErrorPaths(Document) \subseteq {p \in Discovered : CannotBeParsed(p)}

\* a document of one node and two error strings for three discovered files
OneErrorPerFailureWitness ==
    /\ Returned
    /\ Len(supported_files) = 3
    /\ Len(Document.nodes) = 1
    /\ Len(Document.metadata.scan_errors) = 2

\* the server did not answer, or its answer is no UTF-8, no JSON, or a JSON
\* value that is no object
NoUsableAnswer ==
    \/ response = <<>>
    \/ ~response[1].utf8
    \/ response[1].json = <<>>
    \/ TypeOf(response[1].json[1]) # "dict"

\* C19: upload_trail_document called for an existing trail with frontmatter
\* updates that are absent or valid JSON replaces the content of the trail
\* and returns the confirmation, and it returns the Invalid JSON message
\* only for frontmatter updates that are no valid JSON
UploadReplacesContent ==
    (pc = "Returned" /\ call.op = "upload_trail_document") =>
        LET u == call.frontmatter_updates
        IN  /\ (call.slug \in DOMAIN trails /\ (~u.given \/ (u.valid /\ u.text # "")))
                  => /\ trails[call.slug] = call.markdown_content
                     /\ Head(returned[1]) = "Uploaded complete document to trail: "
            /\ Head(returned[1]) = "Invalid JSON in frontmatter_updates"
                  => (u.given /\ ~u.valid)

\* C20: recall and search_solutions raise nothing, whatever the server does,
\* and when the server does not answer or its answer is no JSON object they
\* return the string of their except branch, which names the failure
BrainNeverRaises ==
    /\ pc # "Raised"
    /\ raised = NoValue
    /\ (pc = "Returned" /\ call.op \in {"recall", "search_solutions"}) =>
         /\ Len(returned) = 1
         /\ NoUsableAnswer =>
              /\ exc # NoValue
              /\ returned[1] = (IF call.op = "recall" THEN RecallFailure(exc)
                                ELSE SearchFailure(exc))

\* search_solutions returning its failure string for an answer that is no JSON
BrainNeverRaisesWitness ==
    /\ pc = "Returned"
    /\ call.op = "search_solutions"
    /\ response # <<>>
    /\ response[1].utf8
    /\ response[1].json = <<>>
    /\ Head(returned[1]) = "Unable to search for solutions: "

\* the moves of the orchestrator the state machine allows; Done -> Saved is
\* main's save_scan_result after scan_directory returned
AllowedMoves ==
    { <<"Idle", "Discovering">>, <<"Idle", "Failed">>,
      <<"Discovering", "Extracting">>, <<"Discovering", "Building">>,
      <<"Extracting", "Building">>, <<"Building", "Done">>, <<"Done", "Saved">> }

\* C21: the orchestrator moves only along Idle -> Discovering -> Extracting
\* (one step per discovered file) -> Building -> Done, or from Idle to Failed
\* when the root is invalid; Failed is never entered from Extracting or
\* Building, Building starts only when every discovered file is a parsed
\* file or named by an error string, and Done is entered only from Building
OrchestratorMoves ==
    [][/\ pc' # pc => <<pc, pc'>> \in AllowedMoves
       /\ (pc = "Extracting" /\ pc' \in {"Extracting", "Building"}) => idx' = idx + 1
       /\ pc' = "Failed" => pc \notin {"Extracting", "Building"}
       /\ (pc' = "Building" /\ pc # "Building") =>
             /\ idx' = Len(supported_files) + 1
             /\ Cardinality(DictKeys(file_dependencies'))
                  + Len(result'.metadata.scan_errors) = Len(supported_files)
       /\ (pc' = "Done" /\ pc # "Done") => pc = "Building"]_vars

\* C22: the scan of the same files discovered in another order returns the
\* same set of nodes, the same set of links and the same counts and errors
\* as the first scan, and every dependency with a candidate among the parsed
\* files is linked, wherever the two files stand in the order
OrderIndependent ==
    /\ (phase = "copy" /\ Returned) =>
          /\ Range(Document.nodes) = Range(first[1].nodes)
          /\ Len(Document.nodes) = Len(first[1].nodes)
          /\ Range(Document.links) = Range(first[1].links)
          /\ Len(Document.links) = Len(first[1].links)
          /\ Document.metadata.total_files = first[1].metadata.total_files
          /\ Document.metadata.languages = first[1].metadata.languages
          /\ Range(Document.metadata.scan_errors) = Range(first[1].metadata.scan_errors)
    /\ Returned =>
          \A d \in Dependencies :
              Existing(d[1], d[2]) # {} =>
                  LinksTo(Document, d[1], Range(Priority(d[1], d[2]))) # {}

\* the second scan found the two files in the other order, and in it the
\* file processed first is linked to the file processed last
OrderIndependentWitness ==
    /\ phase = "copy"
    /\ Returned
    /\ Len(Document.nodes) = 2
    /\ Document.nodes[1] = first[1].nodes[2]
    /\ Document.nodes[2] = first[1].nodes[1]
    /\ \E l \in Range(Document.links) :
          l.source = Document.nodes[1].id /\ l.target = Document.nodes[2].id

\* the part of a dotted name before its first dot: the prefix without a dot
\* that is the whole name or is followed by a dot
TopLevel(X) ==
    CHOOSE p \in {SubSeq(X, 1, n) : n \in 0..Len(X)} :
        /\ DOT \notin Range(p)
        /\ p = X \/ X[Len(p) + 1] = DOT

\* the one file of the extractor's harness and what was extracted from it
TheFile == CHOOSE f \in tree : TRUE
Extraction == file_dependencies[1].value

\* C23: for Python source the parser accepts, the dependency set is the
\* set of the top-level components of X for each "import X" and for each
\* "from X import ..." that names a module X, and holds nothing for a
\* "from . import ..." without a module name
PythonImportsExact ==
    (pc = "Parsed" /\ EndsWith(TheFile.name, EXT_PY)) =>
        /\ Extraction =
              {TopLevel(st.module) :
                  st \in {t \in TheFile.text.imports :
                            t.form = "import" \/ t.module # <<>>}}
        /\ \A d \in Extraction : d # <<>> /\ DOT \notin Range(d)
        /\ (\A st \in TheFile.text.imports : st = FROM_DOT) => Extraction = {}

\* "import a.b" and "from a import ..." give the one dependency a
PythonImportsExactWitness ==
    /\ pc = "Parsed"
    /\ TheFile.text.imports = {IMPORT_A_B, [form |-> "from", module |-> N_A, level |-> 0]}
    /\ Extraction = {N_A}

\* the final '/'-separated segment of x: the suffix without a separator
\* that is the whole of x or follows a separator
FinalSegment(x) ==
    CHOOSE t \in {SubSeq(x, n, Len(x)) : n \in 1..Len(x) + 1} :
        /\ SLASH \notin Range(t)
        /\ t = x \/ x[Len(x) - Len(t)] = SLASH

\* the extensions the normalizer knows
KnownExtensions == {EXT_JS, EXT_JSX, EXT_TS, EXT_TSX, EXT_JSON}

\* the final segment of x, without the one known extension it ends in
NormalForm(x) ==
    LET t == FinalSegment(x)
        stems == {q \in {SubSeq(t, 1, n) : n \in 0..Len(t)} :
                    \E e \in KnownExtensions : q \o e = t}
    IN  IF stems = {} THEN t ELSE CHOOSE q \in stems : TRUE

\* the normalizer returns the empty string for the empty string
EmptyStaysEmpty == _clean_js_import(<<>>) = <<>>

SizeIsByteSize ==
    Returned =>
        \A p \in Extracted :
            \A n \in NodesOf(Document, RootRelative(p)) :
                /\ n.size = ByteSize(FileAt(p).text)
                /\ n.lines = FileAt(p).text.newlines + 1

\* the classification of an extension: <<group, color>>
Classification(e) ==
    CASE e = EXT_PY -> <<1, "#3b82f6">>
      [] e \in {EXT_TS, EXT_TSX} -> <<2, "#0891b2">>
      [] e \in {EXT_JS, EXT_JSX} -> <<3, "#eab308">>
      [] OTHER -> <<4, "#6b7280">>

\* the node _build_nodes makes of a file b with the extension e
NodeOfExtension(e) ==
    Node(N_B \o e, [language |-> "other", extension |-> e, size |-> 0, lines |-> 1])

\* the node made of a file of any extension, supported or not, has the
\* group and the color of its extension's classification
EveryExtensionClassified ==
    \A e \in {EXT_PY, EXT_JS, EXT_JSX, EXT_TS, EXT_TSX, EXT_MD, EXT_JSON, <<>>} :
        <<NodeOfExtension(e).group, NodeOfExtension(e).color>> = Classification(e)

\* C26: the node made of a file of any extension, supported or not, has the
\* group and the color of its extension's classification, and every node of
\* every returned document has a group in 1..4 with the color of that
\* group, both those of its extension
FixedClassification ==
    /\ EveryExtensionClassified
    /\ Returned =>
          \A n \in Range(Document.nodes) :
              /\ n.group \in 1..4
              /\ <<n.group, n.color>> = Classification(n.extension)
              /\ n.extension = SplitExt(n.id)

\* a document with a node of each of the groups 1, 2 and 3, the one of
\* group 2 a .tsx file
FixedClassificationWitness ==
    /\ Returned
    /\ {n.group : n \in Range(Document.nodes)} = {1, 2, 3}
    /\ \E n \in Range(Document.nodes) : n.extension = EXT_TSX /\ n.group = 2

\* C27: no returned document holds two links with the same source and the
\* same target
LinksUniquePerPair ==
    Returned =>
        \A i, j \in DOMAIN Document.links :
            (/\ Document.links[i].source = Document.links[j].source
             /\ Document.links[i].target = Document.links[j].target) => i = j

\* a.ts holds a destructured import, which two of the three patterns match,
\* and has one link; the document holds a link of another file as well
LinksUniquePerPairWitness ==
    /\ Returned
    /\ \E f \in tree :
          /\ f.name = N_A \o EXT_TS
          /\ BRACES_B \in f.text.imports
          /\ Cardinality(LinksFromFile(Document, f)) = 1
    /\ Len(Document.links) >= 2

\* the number of directories above the file at a root-relative path
Depth(path) == Cardinality(Positions(path, SLASH))

\* src/lib/a.ts and src/lib/b.ts, two files of one directory two levels
\* below the root
NESTED_A_TS == D_SRC \o <<SLASH>> \o D_LIB \o <<SLASH>> \o N_A \o EXT_TS
NESTED_B_TS == D_SRC \o <<SLASH>> \o D_LIB \o <<SLASH>> \o N_B \o EXT_TS

\* the dependency b of src/lib/a.ts is not linked to its sibling
\* src/lib/b.ts
SiblingNotLinked ==
    LinksOfFile(NESTED_A_TS, <<N_B>>, {NESTED_A_TS, NESTED_B_TS}) = <<>>

TargetsOf(d) ==
    {Document.links[j].target :
        j \in LinksTo(Document, d[1], Range(Priority(d[1], d[2])))}

\* two files lie in the same top-level directory: both at the root, or
\* both below the same directory of the root
SameTopLevel(f, g) ==
    \/ Depth(f) = 0 /\ Depth(g) = 0
    \/ Depth(f) >= 1 /\ Depth(g) >= 1 /\ FirstSegment(f) = FirstSegment(g)

\* C29: two files of the same top-level directory with the same dependency
\* name have the same link target, whatever their languages; a dependency y
\* is linked to the parsed y.py of the root, whatever the language of the
\* source and whether or not y.js and y.ts exist, also when y.py is the
\* source file itself
ResolutionIgnoresSource ==
    Returned =>
        /\ \A d1, d2 \in Dependencies :
              (d1 # d2 /\ d1[2] = d2[2] /\ SameTopLevel(d1[1], d2[1]))
                  => TargetsOf(d1) = TargetsOf(d2)
        /\ \A d \in Dependencies :
              d[2] \o EXT_PY \in Parsed => TargetsOf(d) = {d[2] \o EXT_PY}

\* a.ts and a.py both depend on b and both link to b.py, and a.py, which
\* depends on a as well, links to itself
ResolutionIgnoresSourceWitness ==
    /\ Returned
    /\ \E l \in Range(Document.links) : l.source = N_A \o EXT_TS /\ l.target = B_PY
    /\ \E l \in Range(Document.links) : l.source = A_PY /\ l.target = B_PY
    /\ \E l \in Range(Document.links) : l.source = A_PY /\ l.target = A_PY

LanguageTags == {"python", "javascript", "typescript"}

\* C30: every discovered file has one of the extensions .py, .js, .ts,
\* .tsx, .jsx, and in every returned document the language of every node
\* and every key of metadata.languages is python, javascript or typescript,
\* and no node has group 4
OnlySupportedLanguages ==
    /\ \A p \in Discovered : SplitExt(p) \in {EXT_PY, EXT_JS, EXT_TS, EXT_TSX, EXT_JSX}
    /\ Returned =>
          /\ \A n \in Range(Document.nodes) :
                n.language \in LanguageTags /\ n.group # 4
          /\ DOMAIN Document.metadata.languages \subseteq LanguageTags

\* the root holds b.md beside a JavaScript and a TypeScript file, and the
\* document has the two nodes and the two languages
OnlySupportedLanguagesWitness ==
    /\ Returned
    /\ \E f \in tree : f.name = N_B \o EXT_MD
    /\ Len(Document.nodes) = 2
    /\ DOMAIN Document.metadata.languages = {"javascript", "typescript"}


====
